---------------------------- MODULE Spec2Model ----------------------------
(***************************************************************************)
(* Model of Neonatal_ECG_Assistant_v2.py: the conversions from ECG grid    *)
(* boxes, the QTc formulas, the axis wizard, the reference-range lookup in *)
(* the sheet loaded from the Excel pack, the classification, the alerts    *)
(* and the results table of one script run.                                *)
(*                                                                         *)
(* Representation.                                                         *)
(*  - A Python str is the sequence of its characters (one-character        *)
(*    strings), so that lower(), strip() and the "in" substring test are   *)
(*    computed and not looked up.  "en-dash" stands for the one character  *)
(*    U+2013 and the status placeholder Dash for U+2014.                   *)
(*  - A float with one decimal place is the integer number of tenths,      *)
(*    wrapped as Float(v); None and float("nan") are NoneV and NaNV.       *)
(*  - A box count entered with step 0.5 is the integer number of half      *)
(*    boxes.                                                               *)
(*  - The DataFrame is [columns, rows]: the header names and, per row, the *)
(*    cells in column order.  A column is named by its position; position  *)
(*    0 is Python's None.                                                  *)
(***************************************************************************)
EXTENDS Integers, Sequences, FiniteSets, TLC

VARIABLES
    ref_df,      \* sheet 1 as load_reference_data returned it
    loaded_df,   \* history: the value of ref_df when the script started
    age_days, hr_boxes, pr_boxes, qrs_boxes, qt_boxes, leads,  \* the widgets
    report,      \* what the last script run computed, NotRun before it
    args, ret    \* arguments and result of a single function application

vars == <<ref_df, loaded_df, age_days, hr_boxes, pr_boxes, qrs_boxes,
          qt_boxes, leads, report, args, ret>>

--------------------------------------------------------------------------
(* Python values *)

NoneV == [t |-> "None"]
NaNV == [t |-> "nan"]
Float(v) == [t |-> "float", v |-> v]
IsFloat(x) == x.t = "float"

Dash == "-"
NotRun == [t |-> "NotRun"]
Pending == [t |-> "Pending"]

MinOf(S) == CHOOSE x \in S : \A y \in S : x <= y

--------------------------------------------------------------------------
(* str: lower, strip, substring, str(int) *)

UpperAlpha == <<"A","B","C","D","E","F","G","H","I","J","K","L","M",
                "N","O","P","Q","R","S","T","U","V","W","X","Y","Z">>
LowerAlpha == <<"a","b","c","d","e","f","g","h","i","j","k","l","m",
                "n","o","p","q","r","s","t","u","v","w","x","y","z">>

\* str.lower() of one character
CharLower == [i \in 1..Len(UpperAlpha) |-> LowerAlpha[i]]
UpperIndex == [c \in {UpperAlpha[i] : i \in 1..Len(UpperAlpha)} |->
                  CHOOSE i \in 1..Len(UpperAlpha) : UpperAlpha[i] = c]

LowerChar(c) == IF c \in DOMAIN UpperIndex THEN CharLower[UpperIndex[c]] ELSE c

Lower(s) == [i \in 1..Len(s) |-> LowerChar(s[i])]

RECURSIVE LStrip(_)
LStrip(s) == IF s # <<>> /\ Head(s) = " " THEN LStrip(Tail(s)) ELSE s

RECURSIVE RStrip(_)
RStrip(s) ==
    IF s # <<>> /\ s[Len(s)] = " " THEN RStrip(SubSeq(s, 1, Len(s) - 1)) ELSE s

Strip(s) == RStrip(LStrip(s))

\* k in s
Contains(s, k) ==
    \E i \in 1..(Len(s) - Len(k) + 1) : SubSeq(s, i, i + Len(k) - 1) = k

ContainsAny(s, ks) == \E k \in ks : Contains(s, k)

DigitChars == <<"0","1","2","3","4","5","6","7","8","9">>

RECURSIVE Digits(_)
Digits(n) ==
    IF n < 10 THEN <<DigitChars[n + 1]>>
    ELSE Digits(n \div 10) \o <<DigitChars[(n % 10) + 1]>>

IsDigit(c) == \E i \in 1..10 : DigitChars[i] = c
DigitVal(c) == (CHOOSE i \in 1..10 : DigitChars[i] = c) - 1

RECURSIVE ParseDigits(_, _)
ParseDigits(s, acc) ==
    IF s = <<>> THEN acc ELSE ParseDigits(Tail(s), acc * 10 + DigitVal(Head(s)))

--------------------------------------------------------------------------
(* Cells of the sheet *)

Str(s) == [t |-> "str", s |-> s]
Num(n) == [t |-> "int", n |-> n]
NaNCell == [t |-> "nan"]

\* str(cell), as astype(str) and str(r[age_col]) give it
StrOfCell(c) ==
    CASE c.t = "str" -> c.s
      [] c.t = "int" -> Digits(c.n)
      [] OTHER -> <<"n","a","n">>

\* pd.to_numeric(errors="coerce") of one cell: a number, a string of digits,
\* or NaN
ToNumeric(c) ==
    CASE c.t = "int" -> Float(10 * c.n)
      [] c.t = "str" ->
            IF c.s # <<>> /\ \A i \in 1..Len(c.s) : IsDigit(c.s[i])
            THEN Float(10 * ParseDigits(c.s, 0))
            ELSE NaNV
      [] OTHER -> NaNV

EmptyFrame == [columns |-> <<>>, rows |-> <<>>]

\* DataFrame.empty: no rows or no columns
IsEmptyFrame(df) == Len(df.columns) = 0 \/ Len(df.rows) = 0

--------------------------------------------------------------------------
(* get_range_from_ref, lines 86-153 *)

\* the keywords of the column heuristics, lines 101-112
KwParameter == <<"p","a","r","a","m","e","t","e","r">>
KwMeasure == <<"m","e","a","s","u","r","e">>
KwName == <<"n","a","m","e">>
KwMetric == <<"m","e","t","r","i","c">>
KwMin == <<"m","i","n">>
KwLower == <<"l","o","w","e","r">>
KwMax == <<"m","a","x">>
KwUpper == <<"u","p","p","e","r">>
KwAgeGroup == <<"a","g","e","g","r","o","u","p">>
KwAgeSpGroup == <<"a","g","e"," ","g","r","o","u","p">>
KwAge == <<"a","g","e">>
KwAge_Min == <<"a","g","e","_","m","i","n">>
KwAgeMin == <<"a","g","e","m","i","n">>
KwLower_Age == <<"l","o","w","e","r","_","a","g","e">>
KwAge_Max == <<"a","g","e","_","m","a","x">>
KwAgeMax == <<"a","g","e","m","a","x">>
KwUpper_Age == <<"u","p","p","e","r","_","a","g","e">>

IsParamName(cl) ==
    Contains(cl, KwParameter) \/ Contains(cl, KwMeasure) \/ cl \in {KwName, KwMetric}
IsMinName(cl) == Contains(cl, KwMin) \/ Contains(cl, KwLower)
IsMaxName(cl) == Contains(cl, KwMax) \/ Contains(cl, KwUpper)
IsAgeName(cl) == Contains(cl, KwAgeGroup) \/ Contains(cl, KwAgeSpGroup) \/ cl = KwAge
IsAgeMinName(cl) ==
    Contains(cl, KwAge_Min) \/ Contains(cl, KwAgeMin) \/ Contains(cl, KwLower_Age)
IsAgeMaxName(cl) ==
    Contains(cl, KwAge_Max) \/ Contains(cl, KwAgeMax) \/ Contains(cl, KwUpper_Age)

\* the test of the loop of lines 99-112 for one role, on a lowered name
RoleTest(role, cl) ==
    CASE role = "param_col" -> IsParamName(cl)
      [] role = "min_col" -> IsMinName(cl)
      [] role = "max_col" -> IsMaxName(cl)
      [] role = "age_col" -> IsAgeName(cl)
      [] role = "age_min_col" -> IsAgeMinName(cl)
      [] role = "age_max_col" -> IsAgeMaxName(cl)

\* the loop of lines 99-112 for one role: the first column, in header order,
\* whose lowered name passes the role's test; 0 when none does
FirstCol(columns, role) ==
    LET S == {i \in 1..Len(columns) : RoleTest(role, Lower(columns[i]))}
    IN  IF S = {} THEN 0 ELSE MinOf(S)

param_col(df) == FirstCol(df.columns, "param_col")
min_col(df) == FirstCol(df.columns, "min_col")
max_col(df) == FirstCol(df.columns, "max_col")
age_col(df) == FirstCol(df.columns, "age_col")
age_min_col(df) == FirstCol(df.columns, "age_min_col")
age_max_col(df) == FirstCol(df.columns, "age_max_col")

\* lines 115-116: the rows whose parameter cell, as a stripped and lowered
\* string, equals the stripped and lowered parameter; pc is param_col
FilterParameter(rows, pc, parameter) ==
    IF pc = 0 THEN rows
    ELSE LET Keep(r) == Lower(Strip(StrOfCell(r[pc]))) = Lower(Strip(parameter))
         IN  SelectSeq(rows, Keep)

\* the keywords of the age buckets, lines 127-131
KwDay0 == {<<"<","1">>, <<" ","d","a","y">>, <<"0","-","1">>}
KwWeek1 == {<<"1","en-dash","7">>, <<"1","-","7">>, <<"w","e","e","k">>, <<"7">>}
KwLater == {<<">","7">>, <<"m","o","n","t","h">>, <<"1"," ","m","o","n","t","h">>, <<"3","0">>}
KwAll == <<"a","l","l">>

\* lines 125-133: whether a row's age label is a candidate for age
AgeLabelMatches(cell, age) ==
    LET val == Lower(StrOfCell(cell))
        ok == IF age = 0 /\ ContainsAny(val, KwDay0) THEN TRUE
              ELSE IF 1 <= age /\ age <= 7 /\ ContainsAny(val, KwWeek1) THEN TRUE
              ELSE IF age > 7 /\ ContainsAny(val, KwLater) THEN TRUE
              ELSE FALSE
    IN  ok \/ Contains(val, KwAll)

\* line 120: age_min <= age_days <= age_max on the coerced cells; a
\* comparison with NaN is False
AgeInBounds(lo, hi, age) ==
    /\ IsFloat(ToNumeric(lo)) /\ ToNumeric(lo).v <= 10 * age
    /\ IsFloat(ToNumeric(hi)) /\ 10 * age <= ToNumeric(hi).v

\* lines 123-136: the candidates among rows, and rows unchanged when there are none
FilterAgeGroup(rows, col, age) ==
    LET Keep(r) == AgeLabelMatches(r[col], age)
        candidates == SelectSeq(rows, Keep)
    IN  IF candidates # <<>> THEN candidates ELSE rows

\* lines 119-136; ac, amin and amax are age_col, age_min_col and age_max_col
FilterAge(rows, ac, amin, amax, age) ==
    IF amin # 0 /\ amax # 0
    THEN LET Keep(r) == AgeInBounds(r[amin], r[amax], age)
         IN  SelectSeq(rows, Keep)
    ELSE IF ac # 0 THEN FilterAgeGroup(rows, ac, age)
    ELSE rows

\* the rows of df when line 138 is reached
Surviving(rows, pc, ac, amin, amax, parameter, age) ==
    FilterAge(FilterParameter(rows, pc, parameter), ac, amin, amax, age)

\* a variant that reads the first row of the frame only
ExtractBoundFirstRow(rows, col) ==
    IF col = 0 \/ rows = <<>> THEN NoneV
    ELSE IF IsFloat(ToNumeric(Head(rows)[col])) THEN ToNumeric(Head(rows)[col])
    ELSE NoneV

\* lines 142-151: float(pd.to_numeric(df[col], errors="coerce").dropna().iloc[0]),
\* None when the column is None or iloc[0] raises
ExtractBound(rows, col) ==
    IF col = 0 THEN NoneV
    ELSE LET Numeric(r) == IsFloat(ToNumeric(r[col]))
         IN  IF SelectSeq(rows, Numeric) = <<>> THEN NoneV
             ELSE ToNumeric(Head(SelectSeq(rows, Numeric))[col])

\* lines 139-153: lower, upper and the parameter column's name from the
\* surviving rows
ExtractRange(rows, columns, pc, minc, maxc) ==
    <<IF rows = <<>> THEN NoneV ELSE ExtractBound(rows, minc),
      IF rows = <<>> THEN NoneV ELSE ExtractBound(rows, maxc),
      IF pc # 0 THEN Str(columns[pc]) ELSE NoneV>>

\* the tuple returned by get_range_from_ref(parameter, age_days) with df
\* the global ref_df
get_range_from_ref(df, parameter, age) ==
    IF IsEmptyFrame(df) THEN <<NoneV, NoneV, NoneV>>
    ELSE ExtractRange(Surviving(df.rows, param_col(df), age_col(df), age_min_col(df),
                                age_max_col(df), parameter, age),
                      df.columns, param_col(df), min_col(df), max_col(df))

\* a variant that filters the global frame in place
RefAfterLookupInPlace(global, parameter, age) ==
    IF IsEmptyFrame(global) THEN global
    ELSE [global EXCEPT !.rows = Surviving(global.rows, param_col(global), age_col(global),
                                           age_min_col(global), age_max_col(global),
                                           parameter, age)]

\* line 90: the function filters df, a copy of ref_df, and rebinds the local
\* name at each filter; the global frame after the call is the frame before it
RefAfterLookup(global, parameter, age) == global

--------------------------------------------------------------------------
(* Arithmetic on naturals beyond 32 bits: little-endian digits to BigBase. *)
(* The QTc roots compare products of up to seventeen decimal digits.       *)

BigBase == 10 ^ 4

RECURSIVE BigOf(_)
BigOf(n) == IF n < BigBase THEN <<n>> ELSE <<n % BigBase>> \o BigOf(n \div BigBase)

RECURSIVE BigMulCarry(_, _, _)
BigMulCarry(a, m, c) ==
    IF a = <<>> THEN (IF c = 0 THEN <<>> ELSE BigOf(c))
    ELSE LET t == Head(a) * m + c
         IN  <<t % BigBase>> \o BigMulCarry(Tail(a), m, t \div BigBase)

\* a * m for a big a and 0 < m < 200000
BigMul(a, m) == BigMulCarry(a, m, 0)

RECURSIVE BigLeqFrom(_, _, _)
BigLeqFrom(a, b, i) ==
    IF i = 0 THEN TRUE
    ELSE IF a[i] # b[i] THEN a[i] < b[i]
    ELSE BigLeqFrom(a, b, i - 1)

BigLeq(a, b) ==
    IF Len(a) # Len(b) THEN Len(a) < Len(b) ELSE BigLeqFrom(a, b, Len(a))

RECURSIVE BigTimesPower(_, _, _)
\* a * m^p
BigTimesPower(a, m, p) == IF p = 0 THEN a ELSE BigTimesPower(BigMul(a, m), m, p - 1)

--------------------------------------------------------------------------
(* Conversions, lines 192-208 *)

BpmNumerator == 1500
SmallBoxMs == 40
MsPerMinute == 60000
MsPerSecond == 1000

\* round(n / d, 1) in tenths for an exact quotient of tenths n / d: Python
\* rounds the double to the nearest tenth, a tie to the even tenth
RoundHalfEven(n, d) ==
    LET q == n \div d
        r == n % d
    IN  IF 2 * r > d \/ (2 * r = d /\ q % 2 = 1) THEN q + 1 ELSE q

\* a variant that gives 0.0 for a box count that is not positive
HRZero(hb) == IF hb > 0 THEN Float(RoundHalfEven(2 * 10 * BpmNumerator, hb)) ELSE Float(0)

\* line 192, hb half boxes: round(1500.0 / hr_boxes, 1) if hr_boxes > 0 else None
HR(hb) == IF hb > 0 THEN Float(RoundHalfEven(2 * 10 * BpmNumerator, hb)) ELSE NoneV

\* lines 193-195: round(boxes * 40.0, 1); a half box is 20 ms exactly
ToMs(hb) == Float((hb * SmallBoxMs * 10) \div 2)
PR_ms(hb) == ToMs(hb)
QRS_ms(hb) == ToMs(hb)
QT_ms(hb) == ToMs(hb)

\* lines 198-199: RR_s = 60000.0 / HR / 1000.0 as the ratio num / den, None
\* when HR is None or 0.0 (both falsy)
RR_s(hr) ==
    IF hr = NoneV \/ hr.v = 0 THEN NoneV
    ELSE [t |-> "ratio", num |-> (MsPerMinute * 10) \div MsPerSecond, den |-> hr.v]

\* "RR_s and RR_s > 0", lines 207-208
RRPositive(rr) == rr # NoneV /\ rr.num > 0 /\ rr.den > 0

\* whether r - 1/2 <= qt / (num/den)^(1/p), that is
\* (2r - 1)^p * num <= rhs, where rhs = 2^p * qt^p * den
RootAtLeast(r, p, num, rhs) ==
    r = 0 \/ BigLeq(BigTimesPower(BigOf(num), 2 * r - 1, p), rhs)

RECURSIVE RootUpper(_, _, _, _)
\* a power of two r for which RootAtLeast fails
RootUpper(r, p, num, rhs) ==
    IF RootAtLeast(r, p, num, rhs) THEN RootUpper(2 * r, p, num, rhs) ELSE r

RECURSIVE RootSearch(_, _, _, _, _)
\* the largest r in lo..hi with RootAtLeast, which holds at lo
RootSearch(lo, hi, p, num, rhs) ==
    IF lo = hi THEN lo
    ELSE LET mid == (lo + hi + 1) \div 2
         IN  IF RootAtLeast(mid, p, num, rhs) THEN RootSearch(mid, hi, p, num, rhs)
             ELSE RootSearch(lo, mid - 1, p, num, rhs)

\* round(qt / rr^(1/p), 1) in tenths, qt in tenths: the nearest tenth (no
\* tie is possible: one side of the comparison is odd, the other even)
RoundedRootQuotient(p, qt, rr) ==
    LET rhs == BigTimesPower(BigTimesPower(BigOf(rr.den), qt, p), 2, p)
    IN  RootSearch(0, RootUpper(1, p, rr.num, rhs), p, rr.num, rhs)

\* a variant that divides by RR_s itself
QTcLinear(qt, rr) ==
    IF RRPositive(rr) THEN Float(RoundedRootQuotient(1, qt.v, rr)) ELSE NaNV

\* line 207: round(safe_div(QT_ms, math.sqrt(RR_s)) if RR_s and RR_s>0 else nan, 1)
QTc_Bazett(qt, rr) ==
    IF RRPositive(rr) THEN Float(RoundedRootQuotient(2, qt.v, rr)) ELSE NaNV

\* line 208: the same with RR_s ** (1.0/3.0)
QTc_Fridericia(qt, rr) ==
    IF RRPositive(rr) THEN Float(RoundedRootQuotient(3, qt.v, rr)) ELSE NaNV

--------------------------------------------------------------------------
(* interpret_axis, lines 220-243 *)

NormalAxis == <<"N","o","r","m","a","l"," ","a","x","i","s">>
RightAxisDeviation == <<"R","i","g","h","t"," ","a","x","i","s"," ","d","e","v","i","a","t","i","o","n">>
LeftAxisDeviation == <<"L","e","f","t"," ","a","x","i","s"," ","d","e","v","i","a","t","i","o","n">>
ExtremeAxisDeviation == <<"E","x","t","r","e","m","e"," ","a","x","i","s"," ","d","e","v","i","a","t","i","o","n">>
IndeterminateAxis == <<"I","n","d","e","t","e","r","m","i","n","a","t","e"," ","/"," ","b","o","r","d","e","r","l","i","n","e"," ","a","x","i","s"," ","(","c","o","n","s","i","d","e","r"," ","m","a","n","u","a","l"," ","a","n","g","l","e"," ","m","e","a","s","u","r","e","m","e","n","t",")">>

RightwardHint == "Rightward precordial pattern (V1 positive, V6 not)"
LeftwardHint == "Leftward precordial pattern (V6 positive, V1 not)"
PhysNote == "Rightward axis may be physiological in the first week of life."
FirstWeekDays == 7

\* a variant without the branch of line 228
AxisBaseNoExtreme(i_pos, ii_pos, avf_pos) ==
    IF i_pos /\ ii_pos /\ avf_pos THEN NormalAxis
    ELSE IF (~i_pos) /\ ii_pos /\ avf_pos THEN RightAxisDeviation
    ELSE IF i_pos /\ (~ii_pos) /\ (~avf_pos) THEN LeftAxisDeviation
    ELSE IndeterminateAxis

\* lines 222-231
AxisBase(i_pos, ii_pos, avf_pos) ==
    IF i_pos /\ ii_pos /\ avf_pos THEN NormalAxis
    ELSE IF (~i_pos) /\ ii_pos /\ avf_pos THEN RightAxisDeviation
    ELSE IF i_pos /\ (~ii_pos) /\ (~avf_pos) THEN LeftAxisDeviation
    ELSE IF (~i_pos) /\ (~ii_pos) /\ (~avf_pos) THEN ExtremeAxisDeviation
    ELSE IndeterminateAxis

\* lines 233-237: the list hint
AxisHint(v1_pos, v6_pos) ==
    (IF v1_pos /\ (~v6_pos) THEN <<RightwardHint>> ELSE <<>>)
    \o (IF (~v1_pos) /\ v6_pos THEN <<LeftwardHint>> ELSE <<>>)

\* a variant that stops the first week a day early
AxisPhysEarly(base, age) ==
    IF age < FirstWeekDays /\ Contains(base, RightAxisDeviation) THEN PhysNote ELSE ""

\* lines 239-241: phys, "" when the note does not apply
AxisPhys(base, age) ==
    IF age <= FirstWeekDays /\ Contains(base, RightAxisDeviation) THEN PhysNote ELSE ""

\* base and the parts that " | ".join makes the note of (line 242); an empty
\* list of parts is the empty note
interpret_axis(i_pos, ii_pos, avf_pos, v1_pos, v6_pos, age) ==
    LET base == AxisBase(i_pos, ii_pos, avf_pos)
        phys == AxisPhys(base, age)
    IN  <<base, AxisHint(v1_pos, v6_pos) \o (IF phys # "" THEN <<phys>> ELSE <<>>)>>

--------------------------------------------------------------------------
(* classify, lines 254-261 *)

\* value < low and value > high on floats; a comparison with NaN is False
Less(a, b) == IsFloat(a) /\ IsFloat(b) /\ a.v < b.v

\* a variant that does not look at high
classifyNoHigh(value, low, high) ==
    IF value = NoneV \/ value = NaNV THEN Dash
    ELSE IF low # NoneV /\ Less(value, low) THEN "Low"
    ELSE "Normal"

\* lines 254-261
classify(value, low, high) ==
    IF value = NoneV \/ value = NaNV THEN Dash
    ELSE IF low # NoneV /\ Less(value, low) THEN "Low"
    ELSE IF high # NoneV /\ Less(high, value) THEN "High"
    ELSE "Normal"

--------------------------------------------------------------------------
(* One run of the script, lines 192-312 *)

ParamHR == <<"H","R">>
ParamPR == <<"P","R">>
ParamQRS == <<"Q","R","S">>
ParamQT == <<"Q","T">>

\* lines 270-271, in ms
QtcBazHigh == 480
QtcFrdHigh == 460
qtc_baz_low == NoneV
qtc_baz_high == Float(10 * QtcBazHigh)
qtc_frd_low == NoneV
qtc_frd_high == Float(10 * QtcFrdHigh)

\* lines 282-291: the toasts raised, in order
Alerts(hr, hr_low, hr_high, baz, frd, axis_result) ==
    (IF hr # NoneV /\ (hr_low # NoneV /\ Less(hr, hr_low))
     THEN <<[level |-> "warning", alert |-> "Bradycardia"]>> ELSE <<>>)
    \o (IF hr # NoneV /\ (hr_high # NoneV /\ Less(hr_high, hr))
        THEN <<[level |-> "warning", alert |-> "Tachycardia"]>> ELSE <<>>)
    \o (IF baz # NaNV /\ qtc_baz_high # NoneV /\ Less(qtc_baz_high, baz)
        THEN <<[level |-> "error", alert |-> "Prolonged QTc (Bazett)"]>> ELSE <<>>)
    \o (IF frd # NaNV /\ qtc_frd_high # NoneV /\ Less(qtc_frd_high, frd)
        THEN <<[level |-> "error", alert |-> "Prolonged QTc (Fridericia)"]>> ELSE <<>>)
    \o (IF Contains(axis_result, LeftAxisDeviation)
           \/ Contains(axis_result, ExtremeAxisDeviation)
        THEN <<[level |-> "warning", alert |-> "Axis alert"]>> ELSE <<>>)

\* a cell showing the placeholder
Placeholder == [text |-> Dash]

\* line 296: "lo-hi" when both bounds are there, the placeholder otherwise
ref_fmt(lo, hi) == IF lo # NoneV /\ hi # NoneV THEN [lo |-> lo, hi |-> hi] ELSE Placeholder

\* f"{value} unit"
Shown(value, unit) == [value |-> value, unit |-> unit]

\* lines 298-312
ResultsFrame(age, hrb, prb, qrsb, qtb, hr, pr, qrs, qt, baz, frd, hrR, prR, qrsR, qtR) ==
    << [Measure |-> "Age (days)", Input |-> Shown(age, "days"),
        Converted |-> Placeholder, Reference |-> Placeholder, Status |-> Dash],
       [Measure |-> "HR (from boxes)", Input |-> Shown(hrb, "half boxes"),
        Converted |-> IF hr # NoneV /\ hr.v # 0 THEN Shown(hr, "bpm") ELSE Placeholder,
        Reference |-> ref_fmt(hrR[1], hrR[2]), Status |-> classify(hr, hrR[1], hrR[2])],
       [Measure |-> "PR", Input |-> Shown(prb, "half boxes"),
        Converted |-> Shown(pr, "ms"),
        Reference |-> ref_fmt(prR[1], prR[2]), Status |-> classify(pr, prR[1], prR[2])],
       [Measure |-> "QRS", Input |-> Shown(qrsb, "half boxes"),
        Converted |-> Shown(qrs, "ms"),
        Reference |-> ref_fmt(qrsR[1], qrsR[2]), Status |-> classify(qrs, qrsR[1], qrsR[2])],
       [Measure |-> "QT", Input |-> Shown(qtb, "half boxes"),
        Converted |-> Shown(qt, "ms"),
        Reference |-> ref_fmt(qtR[1], qtR[2]), Status |-> classify(qt, qtR[1], qtR[2])],
       [Measure |-> "QTc (Bazett)", Input |-> Placeholder,
        Converted |-> IF baz # NaNV THEN Shown(baz, "ms") ELSE Placeholder,
        Reference |-> ref_fmt(qtc_baz_low, qtc_baz_high),
        Status |-> classify(baz, qtc_baz_low, qtc_baz_high)],
       [Measure |-> "QTc (Fridericia)", Input |-> Placeholder,
        Converted |-> IF frd # NaNV THEN Shown(frd, "ms") ELSE Placeholder,
        Reference |-> ref_fmt(qtc_frd_low, qtc_frd_high),
        Status |-> classify(frd, qtc_frd_low, qtc_frd_high)] >>

\* the rows of results_df by position
RowHR == 2
RowPR == 3
RowQRS == 4
RowQT == 5
RowBazett == 6
RowFridericia == 7

--------------------------------------------------------------------------
(* Sheets the Excel pack may hold *)

\* a header with the field of a row description that fills its column
Col(name, field) == [name |-> name, field |-> field]

\* Parameter | Age Group | Min | Max
SchemaGroup ==
    <<Col(<<"P","a","r","a","m","e","t","e","r">>, "p"), Col(<<"A","g","e"," ","G","r","o","u","p">>, "g"),
      Col(<<"M","i","n">>, "lo"), Col(<<"M","a","x">>, "hi")>>

\* Measure | Lower | Upper | Age_Min | Age_Max
SchemaBounds ==
    <<Col(<<"M","e","a","s","u","r","e">>, "p"), Col(<<"L","o","w","e","r">>, "lo"), Col(<<"U","p","p","e","r">>, "hi"),
      Col(<<"A","g","e","_","M","i","n">>, "a0"), Col(<<"A","g","e","_","M","a","x">>, "a1")>>

\* Parameter | Min | Max
SchemaNoAge ==
    <<Col(<<"P","a","r","a","m","e","t","e","r">>, "p"), Col(<<"M","i","n">>, "lo"), Col(<<"M","a","x">>, "hi")>>

\* Test | Age | Low | High: only the age column is recognised
SchemaUnnamed ==
    <<Col(<<"T","e","s","t">>, "p"), Col(<<"A","g","e">>, "g"), Col(<<"L","o","w">>, "lo"), Col(<<"H","i","g","h">>, "hi")>>

MkFrame(schema, descs) ==
    [columns |-> [i \in 1..Len(schema) |-> schema[i].name],
     rows |-> [k \in 1..Len(descs) |->
                  [i \in 1..Len(schema) |-> descs[k][schema[i].field]]]]

Desc(p, g, a0, a1, lo, hi) ==
    [p |-> p, g |-> g, a0 |-> a0, a1 |-> a1, lo |-> lo, hi |-> hi]

LabelDay0 == Str(<<"<","1"," ","d","a","y">>)
LabelWeek1 == Str(<<"1","-","7"," ","d","a","y","s">>)
LabelLater == Str(<<">","7"," ","d","a","y","s">>)
LabelAll == Str(<<"A","l","l"," ","a","g","e","s">>)
LabelTerm == Str(<<"T","e","r","m">>)

--------------------------------------------------------------------------
(* The running script.  The pack is loaded once (lines 65-77).  Streamlit  *)
(* runs the script from the top with the widgets' values: first with their *)
(* defaults, then again after each change of a widget and each refresh of  *)
(* the page.  A run starts with nothing computed and ends with the report. *)

\* the sheets of the packs the script is started with
LoadedSheets ==
    { <<Desc(Str(ParamHR), LabelAll, Num(0), Num(30), Num(100), Num(180))>>,
      <<Desc(Str(ParamHR), LabelDay0, Num(0), Num(0), Num(90), Num(160)),
        Desc(Str(ParamHR), LabelWeek1, Num(1), Num(7), Num(100), Num(180)),
        Desc(Str(ParamPR), LabelAll, Num(0), Num(30), Num(80), Num(140))>>,
      <<Desc(Str(ParamHR), LabelAll, Num(0), Num(30), NaNCell, Num(100)),
        Desc(Str(ParamHR), LabelAll, Num(0), Num(30), Num(160), Num(180))>>,
      <<Desc(Str(ParamHR), LabelAll, Num(0), Num(30), Num(100), NaNCell),
        Desc(Str(ParamQT), LabelLater, Num(8), Num(30), NaNCell, Num(440))>>,
      <<Desc(Str(ParamQRS), LabelTerm, Num(0), Num(30), Num(180), Num(100))>> }

\* load_reference_data: sheet 1 of the pack, or an empty frame when the
\* pack cannot be read
LoadedFrames ==
    {EmptyFrame} \cup
    {MkFrame(schema, sheet) : schema \in {SchemaGroup, SchemaBounds}, sheet \in LoadedSheets}

\* the widgets' values the runs are explored with (lines 160-184, 214-218);
\* box counts in half boxes
AgeChoices == {0, 1, 8}
HrChoices == {2, 10, 20, 60}
PrChoices == {6, 30}
QrsChoices == {3}
QtChoices == {16, 40}
Answers == {"Yes", "No"}
LeadNames == {"I", "II", "aVF", "V1", "V6"}

DefaultAge == 1
DefaultHrHalfBoxes == 10
DefaultPrHalfBoxes == 6
DefaultQrsHalfBoxes == 3
DefaultQtHalfBoxes == 16
DefaultLeads == [l \in LeadNames |-> "Yes"]

\* get_range_from_ref and the two QTc values are functions of their
\* arguments alone; the runs evaluate them often, so they are tabulated once
\* over the frames and widget values of this specification and computed
\* directly anywhere else
Tabulated(table, key, direct) == IF key \in DOMAIN table THEN table[key] ELSE direct

RangeMemo ==
    [key \in LoadedFrames \X {ParamHR, ParamPR, ParamQRS, ParamQT} \X AgeChoices |->
        get_range_from_ref(key[1], key[2], key[3])]

QtcPair(qt, rr) == <<QTc_Bazett(qt, rr), QTc_Fridericia(qt, rr)>>

QtcMemo ==
    [key \in HrChoices \X QtChoices |-> QtcPair(QT_ms(key[2]), RR_s(HR(key[1])))]

RECURSIVE LookupAll(_, _, _)
\* lines 264-267: the ranges of the parameters, looked up one call after
\* the other in the global frame as the call before left it
LookupAll(df, parameters, age) ==
    IF parameters = <<>> THEN <<>>
    ELSE <<Tabulated(RangeMemo, <<df, Head(parameters), age>>,
                     get_range_from_ref(df, Head(parameters), age))>>
         \o LookupAll(RefAfterLookup(df, Head(parameters), age), Tail(parameters), age)

RECURSIVE RefAfterLookups(_, _, _)
\* the global frame after those lookups
RefAfterLookups(df, parameters, age) ==
    IF parameters = <<>> THEN df
    ELSE RefAfterLookups(RefAfterLookup(df, Head(parameters), age), Tail(parameters), age)

LookedUp == <<ParamHR, ParamPR, ParamQRS, ParamQT>>

\* what the script has computed when it ends: the conversions, the QTc
\* pair, the axis, the four ranges
Report(age, hrb, prb, qrsb, qtb, hr, pr, qrs, qt, rr, qtc, axis, ranges) ==
    [t |-> "Run",
     HR |-> hr, PR_ms |-> pr, QRS_ms |-> qrs, QT_ms |-> qt, RR_s |-> rr,
     QTc_Bazett |-> qtc[1], QTc_Fridericia |-> qtc[2],
     axis_result |-> axis[1], axis_note |-> axis[2],
     hr_range |-> <<ranges[1][1], ranges[1][2]>>,
     pr_range |-> <<ranges[2][1], ranges[2][2]>>,
     qrs_range |-> <<ranges[3][1], ranges[3][2]>>,
     qt_range |-> <<ranges[4][1], ranges[4][2]>>,
     alerts |-> Alerts(hr, ranges[1][1], ranges[1][2], qtc[1], qtc[2], axis[1]),
     results_df |-> ResultsFrame(age, hrb, prb, qrsb, qtb, hr, pr, qrs, qt,
                                 qtc[1], qtc[2], ranges[1], ranges[2], ranges[3],
                                 ranges[4])]

\* one run of the script on the global frame and the widgets' values
ScriptRun(df, age, hrb, prb, qrsb, qtb, ld) ==
    Report(age, hrb, prb, qrsb, qtb,
           HR(hrb), PR_ms(prb), QRS_ms(qrsb), QT_ms(qtb), RR_s(HR(hrb)),
           Tabulated(QtcMemo, <<hrb, qtb>>, QtcPair(QT_ms(qtb), RR_s(HR(hrb)))),
           interpret_axis(ld.I = "Yes", ld.II = "Yes", ld.aVF = "Yes",
                          ld.V1 = "Yes", ld.V6 = "Yes", age),
           LookupAll(df, LookedUp, age))

Idle == args = NoneV /\ ret = NoneV

Init ==
    /\ ref_df \in LoadedFrames
    /\ loaded_df = ref_df
    /\ age_days = DefaultAge
    /\ hr_boxes = DefaultHrHalfBoxes
    /\ pr_boxes = DefaultPrHalfBoxes
    /\ qrs_boxes = DefaultQrsHalfBoxes
    /\ qt_boxes = DefaultQtHalfBoxes
    /\ leads = DefaultLeads
    /\ report = NotRun
    /\ Idle

\* lines 192-312: the script runs to its end
RunScript ==
    /\ Idle
    /\ report = NotRun
    /\ report' = ScriptRun(ref_df, age_days, hr_boxes, pr_boxes, qrs_boxes, qt_boxes, leads)
    /\ ref_df' = RefAfterLookups(ref_df, LookedUp, age_days)
    /\ UNCHANGED <<loaded_df, age_days, hr_boxes, pr_boxes, qrs_boxes, qt_boxes,
                   leads, args, ret>>

\* the page is refreshed, or the comments are edited (line 187): a new run
\* with the same values
Refresh ==
    /\ report # NotRun
    /\ report' = NotRun
    /\ UNCHANGED <<ref_df, loaded_df, age_days, hr_boxes, pr_boxes, qrs_boxes,
                   qt_boxes, leads, args, ret>>

\* line 160: the age widget is set
SetAge ==
    /\ Idle
    /\ \E a \in AgeChoices : age_days' = a
    /\ report' = NotRun
    /\ UNCHANGED <<ref_df, loaded_df, hr_boxes, pr_boxes, qrs_boxes, qt_boxes,
                   leads, args, ret>>

\* line 164
SetHrBoxes ==
    /\ Idle
    /\ \E b \in HrChoices : hr_boxes' = b
    /\ report' = NotRun
    /\ UNCHANGED <<ref_df, loaded_df, age_days, pr_boxes, qrs_boxes, qt_boxes,
                   leads, args, ret>>

\* line 170
SetPrBoxes ==
    /\ Idle
    /\ \E b \in PrChoices : pr_boxes' = b
    /\ report' = NotRun
    /\ UNCHANGED <<ref_df, loaded_df, age_days, hr_boxes, qrs_boxes, qt_boxes,
                   leads, args, ret>>

\* line 176
SetQrsBoxes ==
    /\ Idle
    /\ \E b \in QrsChoices : qrs_boxes' = b
    /\ report' = NotRun
    /\ UNCHANGED <<ref_df, loaded_df, age_days, hr_boxes, pr_boxes, qt_boxes,
                   leads, args, ret>>

\* line 182
SetQtBoxes ==
    /\ Idle
    /\ \E b \in QtChoices : qt_boxes' = b
    /\ report' = NotRun
    /\ UNCHANGED <<ref_df, loaded_df, age_days, hr_boxes, pr_boxes, qrs_boxes,
                   leads, args, ret>>

\* lines 214-218: one of the radios is answered
SetLead ==
    /\ Idle
    /\ \E l \in LeadNames, a \in Answers : leads' = [leads EXCEPT ![l] = a]
    /\ report' = NotRun
    /\ UNCHANGED <<ref_df, loaded_df, age_days, hr_boxes, pr_boxes, qrs_boxes,
                   qt_boxes, args, ret>>

Next ==
    \/ RunScript
    \/ Refresh
    \/ SetAge
    \/ SetHrBoxes
    \/ SetPrBoxes
    \/ SetQrsBoxes
    \/ SetQtBoxes
    \/ SetLead

Spec == Init /\ [][Next]_vars

--------------------------------------------------------------------------
(* The script run by a host that does not clamp the values as the widgets  *)
(* do: box counts at and below zero reach line 192, which guards them.     *)

HostAges == {0, 3, 8}
HostHrBoxes == {-2, 0, 10, 60}
HostQtBoxes == {16, 40}
HostLeads == {DefaultLeads, [DefaultLeads EXCEPT !["I"] = "No"], [l \in LeadNames |-> "No"]}

InitHost ==
    /\ ref_df \in LoadedFrames
    /\ loaded_df = ref_df
    /\ age_days \in HostAges
    /\ hr_boxes \in HostHrBoxes
    /\ pr_boxes = DefaultPrHalfBoxes
    /\ qrs_boxes = DefaultQrsHalfBoxes
    /\ qt_boxes \in HostQtBoxes
    /\ leads \in HostLeads
    /\ report = NotRun
    /\ Idle

NextHost == RunScript

SpecHost == InitHost /\ [][NextHost]_vars

--------------------------------------------------------------------------
(* Single applications of the functions: the arguments are drawn at the    *)
(* start, the action applies the function once.                            *)

\* the script's own state while a function is applied on its own
NoScript ==
    /\ loaded_df = ref_df
    /\ age_days = DefaultAge
    /\ hr_boxes = DefaultHrHalfBoxes
    /\ pr_boxes = DefaultPrHalfBoxes
    /\ qrs_boxes = DefaultQrsHalfBoxes
    /\ qt_boxes = DefaultQtHalfBoxes
    /\ leads = DefaultLeads
    /\ report = NotRun

\* the value a function application returned
Returned(value) == [t |-> "Returned", value |-> value]

\* what an application leaves alone
ScriptUnchanged ==
    UNCHANGED <<loaded_df, age_days, hr_boxes, pr_boxes, qrs_boxes, qt_boxes,
                leads, report, args>>

(* classify *)

MaxTenths == 3
ClassifyValues == {NoneV, NaNV} \cup {Float(v) : v \in 0..MaxTenths}
ClassifyBounds == {NoneV} \cup {Float(v) : v \in 0..MaxTenths}

InitClassify ==
    /\ ref_df = EmptyFrame
    /\ NoScript
    /\ args \in [value : ClassifyValues, low : ClassifyBounds, high : ClassifyBounds]
    /\ ret = Pending

ApplyClassify ==
    /\ ret = Pending
    /\ ret' = Returned(classify(args.value, args.low, args.high))
    /\ UNCHANGED ref_df
    /\ ScriptUnchanged

SpecClassify == InitClassify /\ [][ApplyClassify]_vars

(* interpret_axis *)

\* max_value of the age widget, line 160
AgeMax == 30

InitAxis ==
    /\ ref_df = EmptyFrame
    /\ NoScript
    /\ args \in [i_pos : BOOLEAN, ii_pos : BOOLEAN, avf_pos : BOOLEAN,
                 v1_pos : BOOLEAN, v6_pos : BOOLEAN, age_days : 0..AgeMax]
    /\ ret = Pending

ApplyAxis ==
    /\ ret = Pending
    /\ ret' = Returned(interpret_axis(args.i_pos, args.ii_pos, args.avf_pos,
                                      args.v1_pos, args.v6_pos, args.age_days))
    /\ UNCHANGED ref_df
    /\ ScriptUnchanged

SpecAxis == InitAxis /\ [][ApplyAxis]_vars

(* HR, RR_s and the QTc pair, lines 192-208 *)

\* max_value of the heart-rate widget in half boxes, line 165
HrMaxHalfBoxes == 100
QtcHrBoxes == (-1)..HrMaxHalfBoxes
\* min_value and max_value of the QT widget in half boxes, line 183
QtMinHalfBoxes == 2
QtMaxHalfBoxes == 40
QtcQtBoxes == QtMinHalfBoxes..QtMaxHalfBoxes

\* lines 192, 195, 198-199, 207-208
Corrected(hrb, qtb) ==
    [HR |-> HR(hrb), QT_ms |-> QT_ms(qtb), RR_s |-> RR_s(HR(hrb)),
     QTc_Bazett |-> QTc_Bazett(QT_ms(qtb), RR_s(HR(hrb))),
     QTc_Fridericia |-> QTc_Fridericia(QT_ms(qtb), RR_s(HR(hrb)))]

InitQTc ==
    /\ ref_df = EmptyFrame
    /\ NoScript
    /\ args \in [hr_boxes : QtcHrBoxes, qt_boxes : QtcQtBoxes]
    /\ ret = Pending

ApplyQTc ==
    /\ ret = Pending
    /\ ret' = Returned(Corrected(args.hr_boxes, args.qt_boxes))
    /\ UNCHANGED ref_df
    /\ ScriptUnchanged

SpecQTc == InitQTc /\ [][ApplyQTc]_vars

(* get_range_from_ref *)

MaxRows == 2

RowPool ==
    { Desc(Str(ParamHR), LabelDay0, Num(0), Num(0), Num(90), Num(160)),
      Desc(Str(<<" ","h","r"," ">>), LabelWeek1, Num(1), Num(7), NaNCell, Num(180)),
      Desc(Str(ParamHR), LabelLater, Num(8), Num(30), Num(110), NaNCell),
      Desc(Str(ParamQT), LabelAll, Num(0), Num(30), Str(<<"n","/","a">>), Num(440)),
      Desc(Str(ParamHR), LabelTerm, NaNCell, Num(30), Str(<<"1","0","0">>), Num(170)) }

RECURSIVE SeqsUpTo(_, _)
\* the sequences over S of length at most n
SeqsUpTo(S, n) ==
    IF n = 0 THEN {<<>>}
    ELSE SeqsUpTo(S, n - 1) \cup {<<x>> \o q : x \in S, q \in SeqsUpTo(S, n - 1)}

PoolFrames ==
    {MkFrame(schema, sheet) :
        schema \in {SchemaGroup, SchemaBounds, SchemaNoAge, SchemaUnnamed},
        sheet \in SeqsUpTo(RowPool, MaxRows)}

RangeParameters == {ParamHR, ParamQT, ParamPR}
RangeAges == {0, 1, 7, 8, 30}

InitRange ==
    /\ ref_df \in PoolFrames
    /\ NoScript
    /\ args \in [parameter : RangeParameters, age_days : RangeAges]
    /\ ret = Pending

ApplyRange ==
    /\ ret = Pending
    /\ ret' = Returned(get_range_from_ref(ref_df, args.parameter, args.age_days))
    /\ ref_df' = RefAfterLookup(ref_df, args.parameter, args.age_days)
    /\ ScriptUnchanged

SpecRange == InitRange /\ [][ApplyRange]_vars

--------------------------------------------------------------------------
(* Properties *)

Statuses == {Dash, "Low", "Normal", "High"}
Ran == report # NotRun
StatusOf(row) == report.results_df[row].Status
ConvertedOf(row) == report.results_df[row].Converted
HasAlert(name) == \E k \in DOMAIN report.alerts : report.alerts[k].alert = name
Undefined == <<NoneV, NoneV>>
InNote(part) == \E k \in DOMAIN ret.value[2] : ret.value[2][k] = part

(* C1: classify(value, low, high) returns the placeholder (Unknown) exactly
   when value is None or NaN; otherwise it returns one of Low, Normal, High,
   and never Normal when low is defined and value < low or when high is
   defined and value > high. *)
C1_ClassifyContract ==
    ret # Pending =>
        /\ ret.value \in Statuses
        /\ (ret.value = Dash) <=> (args.value \in {NoneV, NaNV})
        /\ ret.value = "Normal" =>
              /\ IsFloat(args.value)
              /\ ~(args.low # NoneV /\ args.value.v < args.low.v)
              /\ ~(args.high # NoneV /\ args.value.v > args.high.v)

\* C1: Normal is returned for a value within the one bound that is known
C1_Witness ==
    /\ ret # Pending
    /\ ret.value = "Normal"
    /\ args.low = NoneV
    /\ args.high # NoneV

(* C2: whenever the lookup of a measure returns (None, None), the measure's
   row of the report has status Unknown (the placeholder), never Normal. *)
C2_UnknownWithoutBounds ==
    Ran =>
        /\ report.hr_range = Undefined => StatusOf(RowHR) = Dash
        /\ report.pr_range = Undefined => StatusOf(RowPR) = Dash
        /\ report.qrs_range = Undefined => StatusOf(RowQRS) = Dash
        /\ report.qt_range = Undefined => StatusOf(RowQT) = Dash

\* the category of section 4.3's table for the three limb leads
TableCategory(i_pos, ii_pos, avf_pos) ==
    CASE <<i_pos, ii_pos, avf_pos>> = <<TRUE, TRUE, TRUE>> -> NormalAxis
      [] <<i_pos, ii_pos, avf_pos>> = <<FALSE, TRUE, TRUE>> -> RightAxisDeviation
      [] <<i_pos, ii_pos, avf_pos>> = <<TRUE, FALSE, FALSE>> -> LeftAxisDeviation
      [] <<i_pos, ii_pos, avf_pos>> = <<FALSE, FALSE, FALSE>> -> ExtremeAxisDeviation
      [] OTHER -> IndeterminateAxis

(* C3: for each of the 8 polarities of leads I, II and aVF, and every V1, V6
   and age, interpret_axis returns the one category of the table: Normal for
   (+,+,+), Right deviation for (-,+,+), Left deviation for (+,-,-), Extreme
   deviation for (-,-,-), Indeterminate for the other four. *)
C3_AxisTableTotal ==
    ret # Pending => ret.value[1] = TableCategory(args.i_pos, args.ii_pos, args.avf_pos)

\* C3: an indeterminate combination, with V1 positive and the oldest age
C3_Witness ==
    /\ ret # Pending
    /\ args.i_pos /\ args.ii_pos /\ ~args.avf_pos
    /\ args.v1_pos /\ args.age_days = 30
    /\ ret.value[1] = IndeterminateAxis

(* C4: with a categorical age-group column and no numeric age-bound pair,
   when no row of the parameter has a label matching the bucket of age_days
   (nor one containing "all"), get_range_from_ref returns (None, None). *)
C4_NoAgeMatchNoBounds ==
    (/\ ret # Pending
     /\ ~IsEmptyFrame(ref_df)
     /\ age_col(ref_df) # 0
     /\ ~(age_min_col(ref_df) # 0 /\ age_max_col(ref_df) # 0)
     /\ \A k \in DOMAIN FilterParameter(ref_df.rows, param_col(ref_df), args.parameter) :
           ~AgeLabelMatches(
               FilterParameter(ref_df.rows, param_col(ref_df), args.parameter)[k][age_col(ref_df)],
               args.age_days))
    => (ret.value[1] = NoneV /\ ret.value[2] = NoneV)

(* C5: interpret_axis emits the physiological note exactly when the category
   is Right deviation and age_days <= 7; the precordial hint does not depend
   on the category: the rightward hint exactly when V1 is positive and V6
   is not, the leftward hint exactly when V6 is positive and V1 is not, and
   never both. *)
C5_PhysNoteAndHint ==
    ret # Pending =>
        /\ InNote(PhysNote) <=> (ret.value[1] = RightAxisDeviation /\ args.age_days <= 7)
        /\ InNote(RightwardHint) <=> (args.v1_pos /\ ~args.v6_pos)
        /\ InNote(LeftwardHint) <=> (args.v6_pos /\ ~args.v1_pos)
        /\ ~(InNote(RightwardHint) /\ InNote(LeftwardHint))

\* C5: the note at the last day it applies, beside a leftward hint
C5_Witness ==
    /\ ret # Pending
    /\ args.age_days = 7
    /\ ret.value[1] = RightAxisDeviation
    /\ InNote(PhysNote)
    /\ InNote(LeftwardHint)

\* RR_s below and above one second, on the ratio num / den
RRBelowOne(rr) == rr.num < rr.den
RRAboveOne(rr) == rr.num > rr.den
QTcUndefinedCase(r) == r.HR = NoneV \/ r.HR.v <= 0

(* C6: when hr_boxes <= 0 a run completes with HR undefined (not zero), RR
   undefined and both QTc undefined; the HR row and both QTc rows show the
   placeholder as converted value and have status Unknown; no HR or QTc
   alert is raised; the PR, QRS and QT rows are those of a run with another
   hr_boxes. *)
C6_NonPositiveHrBoxes ==
    (Ran /\ hr_boxes <= 0) =>
        /\ report.HR = NoneV
        /\ report.RR_s = NoneV
        /\ report.QTc_Bazett = NaNV
        /\ report.QTc_Fridericia = NaNV
        /\ \A row \in {RowHR, RowBazett, RowFridericia} :
              ConvertedOf(row) = Placeholder /\ StatusOf(row) = Dash
        /\ ~HasAlert("Bradycardia") /\ ~HasAlert("Tachycardia")
        /\ ~HasAlert("Prolonged QTc (Bazett)") /\ ~HasAlert("Prolonged QTc (Fridericia)")
        /\ \A row \in {RowPR, RowQRS, RowQT} :
              report.results_df[row] =
                  ScriptRun(ref_df, age_days, 10, pr_boxes, qrs_boxes,
                            qt_boxes, leads).results_df[row]

\* C6: a finished run with zero boxes over a table that has ranges
C6_Witness ==
    /\ Ran
    /\ hr_boxes = 0
    /\ report.hr_range # Undefined
    /\ StatusOf(RowHR) = Dash
    /\ StatusOf(RowQT) \in {"Low", "Normal", "High"}

(* C7, as stated: both QTc are undefined when HR is undefined or <= 0, and
   defined and positive otherwise; when defined, Fridericia >= Bazett when
   RR_s < 1 and Fridericia <= Bazett when RR_s > 1. *)
C7_FridericiaAboveBazettBelowOne ==
    ret # Pending =>
        /\ QTcUndefinedCase(ret.value) =>
              ret.value.QTc_Bazett = NaNV /\ ret.value.QTc_Fridericia = NaNV
        /\ ~QTcUndefinedCase(ret.value) =>
              /\ IsFloat(ret.value.QTc_Bazett) /\ ret.value.QTc_Bazett.v > 0
              /\ IsFloat(ret.value.QTc_Fridericia) /\ ret.value.QTc_Fridericia.v > 0
              /\ RRBelowOne(ret.value.RR_s) =>
                    ret.value.QTc_Fridericia.v >= ret.value.QTc_Bazett.v
              /\ RRAboveOne(ret.value.RR_s) =>
                    ret.value.QTc_Fridericia.v <= ret.value.QTc_Bazett.v

(* C7, amended: both QTc are undefined when HR is undefined or <= 0, and
   defined and positive otherwise; when defined, Fridericia <= Bazett when
   RR_s < 1 and Fridericia >= Bazett when RR_s > 1. *)
C7_FridericiaBelowBazettBelowOne ==
    ret # Pending =>
        /\ QTcUndefinedCase(ret.value) =>
              ret.value.QTc_Bazett = NaNV /\ ret.value.QTc_Fridericia = NaNV
        /\ ~QTcUndefinedCase(ret.value) =>
              /\ IsFloat(ret.value.QTc_Bazett) /\ ret.value.QTc_Bazett.v > 0
              /\ IsFloat(ret.value.QTc_Fridericia) /\ ret.value.QTc_Fridericia.v > 0
              /\ RRBelowOne(ret.value.RR_s) =>
                    ret.value.QTc_Fridericia.v <= ret.value.QTc_Bazett.v
              /\ RRAboveOne(ret.value.RR_s) =>
                    ret.value.QTc_Fridericia.v >= ret.value.QTc_Bazett.v

\* C7: the default heart rate (RR_s = 0.2), Fridericia strictly below Bazett
C7_Witness ==
    /\ ret # Pending
    /\ args.hr_boxes = 10
    /\ RRBelowOne(ret.value.RR_s)
    /\ ret.value.QTc_Fridericia.v < ret.value.QTc_Bazett.v

(* C8: the reference table is never changed: after any number of lookups
   and of runs it equals the table as loaded, and the ranges of a finished
   run are those a lookup on the loaded table gives for the same parameter
   and age. *)
C8_ReferenceTableUnchanged ==
    /\ ref_df = loaded_df
    /\ Ran =>
          /\ report.hr_range = SubSeq(get_range_from_ref(loaded_df, ParamHR, age_days), 1, 2)
          /\ report.pr_range = SubSeq(get_range_from_ref(loaded_df, ParamPR, age_days), 1, 2)
          /\ report.qrs_range = SubSeq(get_range_from_ref(loaded_df, ParamQRS, age_days), 1, 2)
          /\ report.qt_range = SubSeq(get_range_from_ref(loaded_df, ParamQT, age_days), 1, 2)

\* C8: a run after the age was changed, over a table from which the lookups
\* filtered rows out
C8_Witness ==
    /\ Ran
    /\ age_days # 1
    /\ ~IsEmptyFrame(ref_df)
    /\ Len(Surviving(ref_df.rows, param_col(ref_df), age_col(ref_df), age_min_col(ref_df),
                     age_max_col(ref_df), ParamHR, age_days)) < Len(ref_df.rows)
    /\ report.hr_range[1] # NoneV

\* the rows a lookup is left with, and those with a number in column col
SurvivingOf(df, parameter, age) ==
    Surviving(df.rows, param_col(df), age_col(df), age_min_col(df), age_max_col(df),
              parameter, age)
NumericRows(rows, col) ==
    IF col = 0 THEN {} ELSE {k \in DOMAIN rows : IsFloat(ToNumeric(rows[k][col]))}
FirstRowBound(rows, col) ==
    IF rows # <<>> /\ 1 \in NumericRows(rows, col) THEN ToNumeric(rows[1][col]) ELSE NoneV
FirstNumericBound(rows, col) ==
    IF NumericRows(rows, col) = {} THEN NoneV
    ELSE ToNumeric(rows[MinOf(NumericRows(rows, col))][col])

(* C9, as stated: low and high are both taken from the first surviving row;
   when its minimum (maximum) entry is missing or not numeric, low (high) is
   undefined, and never filled from a later surviving row. *)
C9_BoundsFromFirstRow ==
    (ret # Pending /\ ~IsEmptyFrame(ref_df)) =>
        /\ ret.value[1] = FirstRowBound(SurvivingOf(ref_df, args.parameter, args.age_days),
                                        min_col(ref_df))
        /\ ret.value[2] = FirstRowBound(SurvivingOf(ref_df, args.parameter, args.age_days),
                                        max_col(ref_df))

(* C9, amended: low is the minimum entry of the first surviving row whose
   minimum entry is numeric, high the maximum entry of the first surviving
   row whose maximum entry is numeric, each side on its own; a side is
   undefined only when no surviving row has a numeric entry on that side. *)
C9_BoundsFromFirstNumericRow ==
    (ret # Pending /\ ~IsEmptyFrame(ref_df)) =>
        /\ ret.value[1] = FirstNumericBound(SurvivingOf(ref_df, args.parameter, args.age_days),
                                            min_col(ref_df))
        /\ ret.value[2] = FirstNumericBound(SurvivingOf(ref_df, args.parameter, args.age_days),
                                            max_col(ref_df))

\* C9: the first surviving row has no numeric minimum and low is defined
C9_Witness ==
    /\ ret # Pending
    /\ ~IsEmptyFrame(ref_df)
    /\ Len(SurvivingOf(ref_df, args.parameter, args.age_days)) = 2
    /\ 1 \notin NumericRows(SurvivingOf(ref_df, args.parameter, args.age_days), min_col(ref_df))
    /\ ret.value[1] # NoneV
    /\ ret.value[2] # NoneV

(* C10: in every run a Bradycardia alert is raised iff the HR row has status
   Low, a Tachycardia alert iff it has status High, a Prolonged-QTc alert
   iff the row of that QTc has status High; a QTc row never has status
   Low. *)
C10_AlertsAgreeWithStatus ==
    Ran =>
        /\ HasAlert("Bradycardia") <=> (StatusOf(RowHR) = "Low")
        /\ HasAlert("Tachycardia") <=> (StatusOf(RowHR) = "High")
        /\ HasAlert("Prolonged QTc (Bazett)") <=> (StatusOf(RowBazett) = "High")
        /\ HasAlert("Prolonged QTc (Fridericia)") <=> (StatusOf(RowFridericia) = "High")
        /\ StatusOf(RowBazett) # "Low"
        /\ StatusOf(RowFridericia) # "Low"

==========================================================================
